---- MODULE Spec2Model ----
(***************************************************************************)
(* Conversation state machine and subsidy calculation engine of the        *)
(* subsidy consultation chatbot (backend/subsidy_chatbot_handler.py,       *)
(* backend/subsidy_calculator.py).                                         *)
(*                                                                         *)
(* One chat session and its consultation record are modelled.  A step of   *)
(* the model is one call of SubsidyChatbotHandler.process_message on the   *)
(* result returned by the extraction oracle (extract_data_with_ai).        *)
(*                                                                         *)
(* Encoding of Python values:                                              *)
(*   None is the empty set {}, a stored value v is {v}                      *)
(*   "research" stands for the string "研發", "marketing" for "行銷",       *)
(*   "export" for "外銷", "domestic" for "內銷"                             *)
(*   a comma-joined text column (bonus_details, recommended_plans) is the  *)
(*   sequence of the joined items                                          *)
(***************************************************************************)
EXTENDS Integers, Sequences, FiniteSets, TLC

\* consultation_data  the SubsidyConsultation record of the session
\* session            the ChatSession row: status and completed_at
\* corrected_fields   self._corrected_fields when process_message returns
\* response           the reply of the last turn, by its parts
\* is_completed       the second value process_message returned
\* last_calls         name (and confirmed argument) of the function calls the
\*                    oracle returned in the last turn
\* turns              number of turns so far; also the clock for completed_at
\* calc_request       the body of a POST /api/subsidy/calculate request, None
\*                    while no such request is made
\* calc_response      what the endpoint answered, None until it has
\* chat_sessions      the rows of table chat_sessions, the id of a row being
\*                    its position
\* subsidy_consultations  the rows of table subsidy_consultations
\* last_request       the last request served on the tables: endpoint, user
\*                    and the session the handler worked on
VARIABLES consultation_data, session, corrected_fields, response,
          is_completed, last_calls, turns, calc_request, calc_response,
          chat_sessions, subsidy_consultations, last_request

vars == <<consultation_data, session, corrected_fields, response,
          is_completed, last_calls, turns, calc_request, calc_response,
          chat_sessions, subsidy_consultations, last_request>>

(***************************************************************************)
(* Bounds of the model                                                     *)
(***************************************************************************)
\* number of chat turns (calls of process_message) explored per session
MaxTurns == 3
\* largest headcount of a standalone calculation request
MaxPeople == 21
\* largest bonus_count of a standalone calculation request
MaxBonusCount == 7
\* number of chat sessions created in the tables
MaxSessions == 2
\* number of requests served on the tables
MaxRequests == 5

(***************************************************************************)
(* Optional values                                                         *)
(***************************************************************************)
None == {}

Some(v) == {v}

IsSet(x) == x # None

Val(x) == CHOOSE v \in x : TRUE

\* Python truthiness of an optional integer: None and 0 are falsy
TruthyInt(x) == IsSet(x) /\ Val(x) # 0

\* Python truthiness of an optional boolean: None and False are falsy
TruthyBool(x) == x = Some(TRUE)

\* "x or 0" on an optional integer
OrZero(x) == IF TruthyInt(x) THEN Val(x) ELSE 0

Min(a, b) == IF a <= b THEN a ELSE b

RECURSIVE SumSeq(_)
SumSeq(s) == IF s = <<>> THEN 0 ELSE Head(s) + SumSeq(Tail(s))

Take(s, n) == SubSeq(s, 1, Min(n, Len(s)))

(***************************************************************************)
(* subsidy_calculator.py                                                   *)
(***************************************************************************)
PT_RESEARCH == "research"

PT_MARKETING == "marketing"

MT_EXPORT == "export"

MT_DOMESTIC == "domestic"

BONUS_VALUES == <<100000, 200000, 50000, 50000, 50000>>

\* int(x * 0.1), int(x * 0.2), int(x * 0.75), int(x * 0.8), int(x * 0.9) on a
\* non-negative integer x: the float product truncated toward zero
IntTimesTenth(x) == x \div 10

IntTimesFifth(x) == x \div 5

IntTimesThreeQuarters(x) == (x * 3) \div 4

IntTimesFourFifths(x) == (x * 4) \div 5

IntTimesNineTenths(x) == (x * 9) \div 10

\* variant: the employee grant is not capped
calculate_employee_grant_uncapped(people) == people * 150000

calculate_employee_grant(people) == Min(people * 150000, 3000000)

\* variant: the tenth of the budget replaces the base bonus only when higher
calculate_revenue_bonus_keeping_higher(revenue, budget, grant_employee) ==
    LET base == IF revenue >= 10000000 THEN 500000 ELSE 0
        tenth == IntTimesTenth(budget)
    IN  IF revenue >= grant_employee * 5
        THEN (IF tenth > base THEN tenth ELSE base)
        ELSE base

calculate_revenue_bonus(revenue, budget, grant_employee) ==
    LET base == IF revenue >= 10000000 THEN 500000 ELSE 0
    IN  IF revenue >= grant_employee * 5 THEN IntTimesTenth(budget) ELSE base

\* variant: bonus_count is used as given, without the cap at five items
calculate_bonus_amount_uncapped(bonus_count_in) ==
    LET bonus_count == bonus_count_in
        total == SumSeq(Take(BONUS_VALUES, bonus_count))
    IN  IF bonus_count = 0 THEN 0
        ELSE IF bonus_count = 5 THEN IntTimesFourFifths(total)
        ELSE IF bonus_count = 4 THEN IntTimesNineTenths(total)
        ELSE total

calculate_bonus_amount(bonus_count_in) ==
    LET bonus_count == Min(bonus_count_in, 5)
        total == SumSeq(Take(BONUS_VALUES, bonus_count))
    IN  IF bonus_count = 0 THEN 0
        ELSE IF bonus_count = 5 THEN IntTimesFourFifths(total)
        ELSE IF bonus_count = 4 THEN IntTimesNineTenths(total)
        ELSE total

\* variant: the limit is a fifth of the revenue, without the fixed ceiling
upper_limit_of_revenue_only(revenue) == IntTimesFifth(revenue)

upper_limit_of(revenue) == Min(4500000, IntTimesFifth(revenue))

\* variant: grant_min is taken from the sum before the upper limit is applied
calculate_grant_range_min_before_limit(budget, people, revenue, bonus_count) ==
    LET grant_employee == calculate_employee_grant(people)
        grant_revenue_bonus == calculate_revenue_bonus(revenue, budget, grant_employee)
        bonus_amount == calculate_bonus_amount(bonus_count)
        raw_max == grant_employee + grant_revenue_bonus + bonus_amount
        upper_limit == upper_limit_of(revenue)
        grant_max == IF raw_max > upper_limit THEN upper_limit ELSE raw_max
    IN  <<IntTimesThreeQuarters(raw_max), grant_max>>

\* variant: an upper limit of zero is taken as no limit
calculate_grant_range_zero_limit_ignored(budget, people, revenue, bonus_count) ==
    LET grant_employee == calculate_employee_grant(people)
        grant_revenue_bonus == calculate_revenue_bonus(revenue, budget, grant_employee)
        bonus_amount == calculate_bonus_amount(bonus_count)
        raw_max == grant_employee + grant_revenue_bonus + bonus_amount
        upper_limit == upper_limit_of(revenue)
        grant_max == IF upper_limit > 0 /\ raw_max > upper_limit THEN upper_limit
                     ELSE raw_max
    IN  <<IntTimesThreeQuarters(grant_max), grant_max>>

\* variant: only the fixed ceiling is applied, not the fifth of the revenue
calculate_grant_range_fixed_ceiling(budget, people, revenue, bonus_count) ==
    LET grant_employee == calculate_employee_grant(people)
        grant_revenue_bonus == calculate_revenue_bonus(revenue, budget, grant_employee)
        bonus_amount == calculate_bonus_amount(bonus_count)
        raw_max == grant_employee + grant_revenue_bonus + bonus_amount
        upper_limit == 4500000
        grant_max == IF raw_max > upper_limit THEN upper_limit ELSE raw_max
    IN  <<IntTimesThreeQuarters(grant_max), grant_max>>

\* <<grant_min, grant_max>>
calculate_grant_range(budget, people, revenue, bonus_count) ==
    LET grant_employee == calculate_employee_grant(people)
        grant_revenue_bonus == calculate_revenue_bonus(revenue, budget, grant_employee)
        bonus_amount == calculate_bonus_amount(bonus_count)
        raw_max == grant_employee + grant_revenue_bonus + bonus_amount
        upper_limit == upper_limit_of(revenue)
        grant_max == IF raw_max > upper_limit THEN upper_limit ELSE raw_max
    IN  <<IntTimesThreeQuarters(grant_max), grant_max>>

\* variant: the plan thresholds are strict
get_recommended_plans_strict(project_type, marketing_types, grant_max) ==
    LET threshold == IntTimesFourFifths(grant_max)
        InList(t) == \E i \in 1..Len(marketing_types) : marketing_types[i] = t
    IN  IF project_type = PT_RESEARCH
        THEN (IF threshold >= 0 THEN <<"local_SBIR">> ELSE <<>>)
             \o (IF threshold > 1500000 THEN <<"CITD">> ELSE <<>>)
             \o (IF threshold > 2000000 THEN <<"central_SBIR">> ELSE <<>>)
        ELSE IF project_type = PT_MARKETING
        THEN (IF InList(MT_EXPORT) THEN <<"overseas_market_plan">> ELSE <<>>)
             \o (IF InList(MT_DOMESTIC) THEN <<"domestic_promotion_plan">> ELSE <<>>)
        ELSE <<>>

\* variant: the marketing plans follow the order of marketing_types
get_recommended_plans_in_given_order(project_type, marketing_types, grant_max) ==
    LET threshold == IntTimesFourFifths(grant_max)
        PlanOf(t) == IF t = MT_EXPORT THEN <<"overseas_market_plan">>
                     ELSE IF t = MT_DOMESTIC THEN <<"domestic_promotion_plan">>
                     ELSE <<>>
    IN  IF project_type = PT_RESEARCH
        THEN (IF threshold >= 0 THEN <<"local_SBIR">> ELSE <<>>)
             \o (IF threshold >= 1500000 THEN <<"CITD">> ELSE <<>>)
             \o (IF threshold >= 2000000 THEN <<"central_SBIR">> ELSE <<>>)
        ELSE IF project_type = PT_MARKETING
        THEN (IF Len(marketing_types) >= 1 THEN PlanOf(marketing_types[1]) ELSE <<>>)
             \o (IF Len(marketing_types) >= 2 THEN PlanOf(marketing_types[2]) ELSE <<>>)
        ELSE <<>>

get_recommended_plans(project_type, marketing_types, grant_max) ==
    LET threshold == IntTimesFourFifths(grant_max)
        InList(t) == \E i \in 1..Len(marketing_types) : marketing_types[i] = t
    IN  IF project_type = PT_RESEARCH
        THEN (IF threshold >= 0 THEN <<"local_SBIR">> ELSE <<>>)
             \o (IF threshold >= 1500000 THEN <<"CITD">> ELSE <<>>)
             \o (IF threshold >= 2000000 THEN <<"central_SBIR">> ELSE <<>>)
        ELSE IF project_type = PT_MARKETING
        THEN (IF InList(MT_EXPORT) THEN <<"overseas_market_plan">> ELSE <<>>)
             \o (IF InList(MT_DOMESTIC) THEN <<"domestic_promotion_plan">> ELSE <<>>)
        ELSE <<>>

calculate_all(budget, people, revenue, bonus_count, project_type, marketing_types) ==
    LET range == calculate_grant_range(budget, people, revenue, bonus_count)
        grant_employee == calculate_employee_grant(people)
    IN  [grant_min |-> range[1],
         grant_max |-> range[2],
         recommended_plans |-> get_recommended_plans(project_type, marketing_types, range[2]),
         breakdown |-> [grant_employee |-> grant_employee,
                        grant_revenue_bonus |->
                            calculate_revenue_bonus(revenue, budget, grant_employee),
                        bonus_amount |-> calculate_bonus_amount(bonus_count),
                        upper_limit |-> upper_limit_of(revenue)]]

(***************************************************************************)
(* The consultation record as the handler reads and writes it              *)
(* (models.SubsidyConsultation, attributes used by SubsidyChatbotHandler)   *)
(***************************************************************************)
IntFields == {"budget", "people", "capital", "revenue", "growth_revenue"}

BoolFields == {"has_certification", "has_gov_award", "is_mit",
               "has_industry_academia", "has_factory_registration"}

StrFields == {"project_type", "marketing_type"}

\* the order in which update_consultation_data treats the keys of its argument
UpdateOrder == <<"project_type", "budget", "people", "capital", "revenue",
                 "has_certification", "has_gov_award", "is_mit",
                 "has_industry_academia", "has_factory_registration",
                 "marketing_type", "growth_revenue">>

\* the five bonus flags in the order of _update_bonus_count_and_details
BonusOrder == <<"has_certification", "has_gov_award", "is_mit",
                "has_industry_academia", "has_factory_registration">>

\* the record right after create_session: every collectable attribute is None
NewConsultation ==
    [project_type |-> None, budget |-> None, people |-> None, capital |-> None,
     revenue |-> None, growth_revenue |-> None,
     has_certification |-> None, has_gov_award |-> None, is_mit |-> None,
     has_industry_academia |-> None, has_factory_registration |-> None,
     bonus_count |-> Some(0), bonus_details |-> None,
     marketing_type |-> None, data_confirmed |-> FALSE,
     grant_min |-> None, grant_max |-> None, recommended_plans |-> None]

NewSession == [status |-> "ACTIVE", completed_at |-> None]

\* marketing_type.split(',') with every item stripped
SplitMarketing(text) ==
    CASE text = "export" -> <<MT_EXPORT>>
      [] text = "domestic" -> <<MT_DOMESTIC>>
      [] text = "domestic, export" -> <<MT_DOMESTIC, MT_EXPORT>>
      [] OTHER -> <<text>>

RECURSIVE TrueFlags(_, _)
TrueFlags(cd, flags) ==
    IF flags = <<>> THEN <<>>
    ELSE (IF TruthyBool(cd[Head(flags)]) THEN <<Head(flags)>> ELSE <<>>)
         \o TrueFlags(cd, Tail(flags))

\* variant: counts every answered flag, not only the flags answered yes
update_bonus_count_and_details_answered(cd) ==
    LET answered == SelectSeq(BonusOrder, LAMBDA f : IsSet(cd[f]))
    IN  [cd EXCEPT !.bonus_count = Some(Len(answered)),
                   !.bonus_details = IF answered # <<>> THEN Some(answered) ELSE None]

update_bonus_count_and_details(cd) ==
    LET bonus_items == TrueFlags(cd, BonusOrder)
    IN  [cd EXCEPT !.bonus_count = Some(Len(bonus_items)),
                   !.bonus_details = IF bonus_items # <<>> THEN Some(bonus_items)
                                     ELSE None]

(***************************************************************************)
(* Values the oracle may put in the arguments of a function call.          *)
(* tag "null" is a JSON null, "bad" a value int() raises on.               *)
(***************************************************************************)
NullArg == [tag |-> "null", n |-> 0, s |-> "", b |-> FALSE]

BadArg == [tag |-> "bad", n |-> 0, s |-> "", b |-> FALSE]

IntArg(n) == [tag |-> "int", n |-> n, s |-> "", b |-> FALSE]

StrArg(s) == [tag |-> "str", n |-> 0, s |-> s, b |-> FALSE]

BoolArg(b) == [tag |-> "bool", n |-> 0, s |-> "", b |-> b]

\* variant: a null or empty value erases what is stored
UpdateField_erasing(st, f, data) ==
    IF st.raised \/ f \notin DOMAIN data THEN st
    ELSE LET a == data[f]
             stored == st.cd[f]
         IN  IF a.tag = "null" \/ (a.tag = "str" /\ a.s = "")
             THEN [st EXCEPT !.cd[f] = None, !.updated = TRUE]
             ELSE IF f \in StrFields
             THEN [st EXCEPT !.corrected = IF IsSet(stored) /\ stored # Some(a.s)
                                           THEN Append(@, f) ELSE @,
                             !.cd[f] = Some(a.s),
                             !.updated = TRUE]
             ELSE IF f \in IntFields
             THEN IF a.tag = "bad" THEN [st EXCEPT !.raised = TRUE]
                  ELSE [st EXCEPT !.corrected = IF TruthyInt(stored) /\ stored # Some(a.n)
                                                THEN Append(@, f) ELSE @,
                                  !.cd[f] = Some(a.n),
                                  !.updated = TRUE]
             ELSE [st EXCEPT !.corrected = IF IsSet(stored) /\ stored # Some(a.b)
                                           THEN Append(@, f) ELSE @,
                             !.cd[f] = Some(a.b),
                             !.updated = TRUE]

\* variant: an amount is stored only while the field holds none
UpdateField_first_amount_kept(st, f, data) ==
    IF st.raised \/ f \notin DOMAIN data THEN st
    ELSE LET a == data[f]
             stored == st.cd[f]
         IN  IF f \in StrFields
             THEN IF a.tag = "str" /\ a.s # ""
                  THEN [st EXCEPT !.corrected = IF IsSet(stored) /\ stored # Some(a.s)
                                                THEN Append(@, f) ELSE @,
                                  !.cd[f] = Some(a.s),
                                  !.updated = TRUE]
                  ELSE st
             ELSE IF a.tag = "null" THEN st
             ELSE IF f \in IntFields
             THEN IF a.tag = "bad" THEN [st EXCEPT !.raised = TRUE]
                  ELSE [st EXCEPT !.corrected = IF TruthyInt(stored) /\ stored # Some(a.n)
                                                THEN Append(@, f) ELSE @,
                                  !.cd[f] = IF IsSet(stored) THEN stored ELSE Some(a.n),
                                  !.updated = TRUE]
             ELSE [st EXCEPT !.corrected = IF IsSet(stored) /\ stored # Some(a.b)
                                           THEN Append(@, f) ELSE @,
                             !.cd[f] = Some(a.b),
                             !.updated = TRUE]

\* one "if <key> in data ..." block of update_consultation_data, applied to
\* st = [cd, updated, corrected, raised]
UpdateField(st, f, data) ==
    IF st.raised \/ f \notin DOMAIN data THEN st
    ELSE LET a == data[f]
             stored == st.cd[f]
         IN  IF f \in StrFields
             THEN IF a.tag = "str" /\ a.s # ""
                  THEN [st EXCEPT !.corrected = IF IsSet(stored) /\ stored # Some(a.s)
                                                THEN Append(@, f) ELSE @,
                                  !.cd[f] = Some(a.s),
                                  !.updated = TRUE]
                  ELSE st
             ELSE IF a.tag = "null" THEN st
             ELSE IF f \in IntFields
             THEN IF a.tag = "bad" THEN [st EXCEPT !.raised = TRUE]
                  ELSE [st EXCEPT !.corrected = IF TruthyInt(stored) /\ stored # Some(a.n)
                                                THEN Append(@, f) ELSE @,
                                  !.cd[f] = Some(a.n),
                                  !.updated = TRUE]
             ELSE [st EXCEPT !.corrected = IF IsSet(stored) /\ stored # Some(a.b)
                                           THEN Append(@, f) ELSE @,
                             !.cd[f] = Some(a.b),
                             !.updated = TRUE]

RECURSIVE UpdateFields(_, _, _)
UpdateFields(st, fields, data) ==
    IF fields = <<>> THEN st
    ELSE UpdateFields(UpdateField(st, Head(fields), data), Tail(fields), data)

\* [cd, updated, corrected, raised]: the record after the call, the value
\* returned, self._corrected_fields after the call, whether the except
\* branch (rollback, return False) was taken
update_consultation_data(cd, data) ==
    LET st == UpdateFields([cd |-> cd, updated |-> FALSE, corrected |-> <<>>,
                            raised |-> FALSE], UpdateOrder, data)
    IN  IF st.raised
        THEN [cd |-> cd, updated |-> FALSE, corrected |-> st.corrected, raised |-> TRUE]
        ELSE IF st.updated
        THEN [st EXCEPT !.cd = update_bonus_count_and_details(st.cd)]
        ELSE st

(***************************************************************************)
(* calculate_and_save_subsidy                                              *)
(***************************************************************************)
\* [success, cd, session, result]
\* variant: the session is marked COMPLETED without its completion time
calculate_and_save_subsidy_unstamped(cd, sess, now) ==
    IF \/ ~IsSet(cd.project_type)
       \/ ~IsSet(cd.budget)
       \/ ~IsSet(cd.people)
       \/ ~IsSet(cd.capital)
       \/ ~IsSet(cd.revenue)
    THEN [success |-> FALSE, cd |-> cd, session |-> sess, result |-> None]
    ELSE LET marketing_types == IF IsSet(cd.marketing_type)
                                THEN SplitMarketing(Val(cd.marketing_type))
                                ELSE <<>>
             result == calculate_all(Val(cd.budget), Val(cd.people), Val(cd.revenue),
                                     OrZero(cd.bonus_count), Val(cd.project_type),
                                     marketing_types)
         IN  [success |-> TRUE,
              cd |-> [cd EXCEPT !.grant_min = Some(result.grant_min),
                                !.grant_max = Some(result.grant_max),
                                !.recommended_plans = Some(result.recommended_plans)],
              session |-> [status |-> "COMPLETED", completed_at |-> sess.completed_at],
              result |-> Some(result)]

\* variant: a government award counts as two bonus items
calculate_and_save_subsidy_award_weighted(cd, sess, now) ==
    IF \/ ~IsSet(cd.project_type)
       \/ ~IsSet(cd.budget)
       \/ ~IsSet(cd.people)
       \/ ~IsSet(cd.capital)
       \/ ~IsSet(cd.revenue)
    THEN [success |-> FALSE, cd |-> cd, session |-> sess, result |-> None]
    ELSE LET marketing_types == IF IsSet(cd.marketing_type)
                                THEN SplitMarketing(Val(cd.marketing_type))
                                ELSE <<>>
             result == calculate_all(Val(cd.budget), Val(cd.people), Val(cd.revenue),
                                     OrZero(cd.bonus_count)
                                     + (IF cd.has_gov_award = Some(TRUE) THEN 1 ELSE 0),
                                     Val(cd.project_type), marketing_types)
         IN  [success |-> TRUE,
              cd |-> [cd EXCEPT !.grant_min = Some(result.grant_min),
                                !.grant_max = Some(result.grant_max),
                                !.recommended_plans = Some(result.recommended_plans)],
              session |-> [status |-> "COMPLETED", completed_at |-> Some(now)],
              result |-> Some(result)]

\* variant: a recalculation appends its plans to the plans already stored
calculate_and_save_subsidy_appending(cd, sess, now) ==
    IF \/ ~IsSet(cd.project_type)
       \/ ~IsSet(cd.budget)
       \/ ~IsSet(cd.people)
       \/ ~IsSet(cd.capital)
       \/ ~IsSet(cd.revenue)
    THEN [success |-> FALSE, cd |-> cd, session |-> sess, result |-> None]
    ELSE LET marketing_types == IF IsSet(cd.marketing_type)
                                THEN SplitMarketing(Val(cd.marketing_type))
                                ELSE <<>>
             result == calculate_all(Val(cd.budget), Val(cd.people), Val(cd.revenue),
                                     OrZero(cd.bonus_count), Val(cd.project_type),
                                     marketing_types)
         IN  [success |-> TRUE,
              cd |-> [cd EXCEPT !.grant_min = Some(result.grant_min),
                                !.grant_max = Some(result.grant_max),
                                !.recommended_plans =
                                    Some((IF IsSet(@) THEN Val(@) ELSE <<>>)
                                         \o result.recommended_plans)],
              session |-> [status |-> "COMPLETED", completed_at |-> Some(now)],
              result |-> Some(result)]

calculate_and_save_subsidy(cd, sess, now) ==
    IF \/ ~IsSet(cd.project_type)
       \/ ~IsSet(cd.budget)
       \/ ~IsSet(cd.people)
       \/ ~IsSet(cd.capital)
       \/ ~IsSet(cd.revenue)
    THEN [success |-> FALSE, cd |-> cd, session |-> sess, result |-> None]
    ELSE LET marketing_types == IF IsSet(cd.marketing_type)
                                THEN SplitMarketing(Val(cd.marketing_type))
                                ELSE <<>>
             result == calculate_all(Val(cd.budget), Val(cd.people), Val(cd.revenue),
                                     OrZero(cd.bonus_count), Val(cd.project_type),
                                     marketing_types)
         IN  [success |-> TRUE,
              cd |-> [cd EXCEPT !.grant_min = Some(result.grant_min),
                                !.grant_max = Some(result.grant_max),
                                !.recommended_plans = Some(result.recommended_plans)],
              session |-> [status |-> "COMPLETED", completed_at |-> Some(now)],
              result |-> Some(result)]

(***************************************************************************)
(* get_current_data_summary and get_next_field_question                    *)
(***************************************************************************)
\* the lines of the summary, each named by the attribute it renders
get_current_data_summary(cd) ==
    (IF IsSet(cd.project_type) THEN <<"project_type">> ELSE <<>>)
    \o (IF IsSet(cd.budget) THEN <<"budget">> ELSE <<>>)
    \o (IF IsSet(cd.people) THEN <<"people">> ELSE <<>>)
    \o (IF IsSet(cd.capital) THEN <<"capital">> ELSE <<>>)
    \o (IF IsSet(cd.revenue) THEN <<"revenue">> ELSE <<>>)
    \o (IF IsSet(cd.bonus_count) /\ Val(cd.bonus_count) > 0 THEN <<"bonus_count">> ELSE <<>>)
    \o (IF IsSet(cd.bonus_details) THEN <<"bonus_details">> ELSE <<>>)
    \o (IF IsSet(cd.marketing_type) THEN <<"marketing_type">> ELSE <<>>)
    \o (IF IsSet(cd.growth_revenue) THEN <<"growth_revenue">> ELSE <<>>)

Ask(f) == [kind |-> "ask", field |-> f, summary |-> <<>>]

SummaryPrompt(lines) == [kind |-> "summary", field |-> "", summary |-> lines]

ReadyPrompt == [kind |-> "ready", field |-> "", summary |-> <<>>]

NoPrompt == [kind |-> "none", field |-> "", summary |-> <<>>]

\* variant: capital is asked before people
get_next_field_question_swapped(cd) ==
    IF ~IsSet(cd.project_type) THEN Ask("project_type")
    ELSE IF ~IsSet(cd.budget) THEN Ask("budget")
    ELSE IF ~IsSet(cd.capital) THEN Ask("capital")
    ELSE IF ~IsSet(cd.people) THEN Ask("people")
    ELSE IF ~IsSet(cd.revenue) THEN Ask("revenue")
    ELSE IF ~IsSet(cd.has_certification) THEN Ask("has_certification")
    ELSE IF ~IsSet(cd.has_gov_award) THEN Ask("has_gov_award")
    ELSE IF ~IsSet(cd.is_mit) THEN Ask("is_mit")
    ELSE IF ~IsSet(cd.has_industry_academia) THEN Ask("has_industry_academia")
    ELSE IF ~IsSet(cd.has_factory_registration) THEN Ask("has_factory_registration")
    ELSE IF cd.project_type = Some(PT_MARKETING) /\ ~IsSet(cd.marketing_type)
    THEN Ask("marketing_type")
    ELSE IF cd.project_type = Some(PT_MARKETING) /\ ~IsSet(cd.growth_revenue)
    THEN Ask("growth_revenue")
    ELSE IF ~cd.data_confirmed THEN SummaryPrompt(get_current_data_summary(cd))
    ELSE ReadyPrompt

\* variant: the marketing fields are not looked at before the summary
get_next_field_question_no_marketing(cd) ==
    IF ~IsSet(cd.project_type) THEN Ask("project_type")
    ELSE IF ~IsSet(cd.budget) THEN Ask("budget")
    ELSE IF ~IsSet(cd.people) THEN Ask("people")
    ELSE IF ~IsSet(cd.capital) THEN Ask("capital")
    ELSE IF ~IsSet(cd.revenue) THEN Ask("revenue")
    ELSE IF ~IsSet(cd.has_certification) THEN Ask("has_certification")
    ELSE IF ~IsSet(cd.has_gov_award) THEN Ask("has_gov_award")
    ELSE IF ~IsSet(cd.is_mit) THEN Ask("is_mit")
    ELSE IF ~IsSet(cd.has_industry_academia) THEN Ask("has_industry_academia")
    ELSE IF ~IsSet(cd.has_factory_registration) THEN Ask("has_factory_registration")
    ELSE IF ~cd.data_confirmed THEN SummaryPrompt(get_current_data_summary(cd))
    ELSE ReadyPrompt

get_next_field_question(cd) ==
    IF ~IsSet(cd.project_type) THEN Ask("project_type")
    ELSE IF ~IsSet(cd.budget) THEN Ask("budget")
    ELSE IF ~IsSet(cd.people) THEN Ask("people")
    ELSE IF ~IsSet(cd.capital) THEN Ask("capital")
    ELSE IF ~IsSet(cd.revenue) THEN Ask("revenue")
    ELSE IF ~IsSet(cd.has_certification) THEN Ask("has_certification")
    ELSE IF ~IsSet(cd.has_gov_award) THEN Ask("has_gov_award")
    ELSE IF ~IsSet(cd.is_mit) THEN Ask("is_mit")
    ELSE IF ~IsSet(cd.has_industry_academia) THEN Ask("has_industry_academia")
    ELSE IF ~IsSet(cd.has_factory_registration) THEN Ask("has_factory_registration")
    ELSE IF cd.project_type = Some(PT_MARKETING) /\ ~IsSet(cd.marketing_type)
    THEN Ask("marketing_type")
    ELSE IF cd.project_type = Some(PT_MARKETING) /\ ~IsSet(cd.growth_revenue)
    THEN Ask("growth_revenue")
    ELSE IF ~cd.data_confirmed THEN SummaryPrompt(get_current_data_summary(cd))
    ELSE ReadyPrompt

(***************************************************************************)
(* get_progress                                                            *)
(***************************************************************************)
OneIf(b) == IF b THEN 1 ELSE 0

\* variant: every bonus item counts as a completed field
get_progress_counting_items(cd) ==
    LET is_marketing == cd.project_type = Some(PT_MARKETING)
        total_fields == IF is_marketing THEN 8 ELSE 6
        fields_completed ==
            OneIf(IsSet(cd.project_type) /\ cd.project_type # Some(""))
            + OneIf(IsSet(cd.budget))
            + OneIf(IsSet(cd.people))
            + OneIf(IsSet(cd.capital))
            + OneIf(IsSet(cd.revenue))
            + OrZero(cd.bonus_count)
            + (IF is_marketing
               THEN OneIf(IsSet(cd.marketing_type) /\ cd.marketing_type # Some(""))
                    + OneIf(IsSet(cd.growth_revenue))
               ELSE 0)
    IN  [data_collection_complete |-> fields_completed = total_fields,
         fields_completed |-> fields_completed,
         total_fields |-> total_fields]

get_progress(cd) ==
    LET is_marketing == cd.project_type = Some(PT_MARKETING)
        total_fields == IF is_marketing THEN 8 ELSE 6
        fields_completed ==
            OneIf(IsSet(cd.project_type) /\ cd.project_type # Some(""))
            + OneIf(IsSet(cd.budget))
            + OneIf(IsSet(cd.people))
            + OneIf(IsSet(cd.capital))
            + OneIf(IsSet(cd.revenue))
            + OneIf(IsSet(cd.bonus_count) /\ Val(cd.bonus_count) > 0)
            + (IF is_marketing
               THEN OneIf(IsSet(cd.marketing_type) /\ cd.marketing_type # Some(""))
                    + OneIf(IsSet(cd.growth_revenue))
               ELSE 0)
    IN  [data_collection_complete |-> fields_completed = total_fields,
         fields_completed |-> fields_completed,
         total_fields |-> total_fields]

(***************************************************************************)
(* process_message                                                         *)
(***************************************************************************)
NoArguments == [k \in {} |-> NullArg]

UpdateCall(data) == [name |-> "update_subsidy_data", arguments |-> data]

ConfirmCall(b) == [name |-> "confirm_data", arguments |-> [k \in {"confirmed"} |-> BoolArg(b)]]

\* confirm_data without the "confirmed" key: arguments.get("confirmed", False)
ConfirmCallNoArg == [name |-> "confirm_data", arguments |-> NoArguments]

CalculateCall == [name |-> "calculate_subsidy",
                  arguments |-> [k \in {"ready_to_calculate"} |-> BoolArg(TRUE)]]

UnknownCall == [name |-> "unknown_function", arguments |-> NoArguments]

\* call["arguments"].get("confirmed", False)
ConfirmedArgument(call) ==
    "confirmed" \in DOMAIN call.arguments /\ call.arguments["confirmed"] = BoolArg(TRUE)

\* the handler at the start of process_message
NewHandler(cd, sess) ==
    [cd |-> cd, session |-> sess, corrected |-> <<>>, completed |-> FALSE,
     data_updated |-> FALSE, calculation_done |-> FALSE, calculation_result |-> None]

\* variant: a successful calculation does not mark the turn as completed
RunCalculation_unreported(h, now) ==
    LET calc == calculate_and_save_subsidy(h.cd, h.session, now)
    IN  IF calc.success
        THEN [h EXCEPT !.cd = calc.cd, !.session = calc.session,
                       !.calculation_done = TRUE,
                       !.calculation_result = calc.result]
        ELSE h

\* the part of the loop body shared by confirm_data and calculate_subsidy
RunCalculation(h, now) ==
    LET calc == calculate_and_save_subsidy(h.cd, h.session, now)
    IN  IF calc.success
        THEN [h EXCEPT !.cd = calc.cd, !.session = calc.session,
                       !.calculation_done = TRUE,
                       !.calculation_result = calc.result,
                       !.completed = TRUE]
        ELSE h

\* variant: calculate_subsidy is not gated by data_confirmed
ApplyCall_ungated(h, call, now) ==
    IF call.name = "update_subsidy_data"
    THEN LET u == update_consultation_data(h.cd, call.arguments)
         IN  [h EXCEPT !.cd = u.cd, !.corrected = u.corrected,
                       !.data_updated = @ \/ u.updated]
    ELSE IF call.name = "confirm_data"
    THEN IF ConfirmedArgument(call)
         THEN RunCalculation([h EXCEPT !.cd.data_confirmed = TRUE], now)
         ELSE h
    ELSE IF call.name = "calculate_subsidy"
    THEN RunCalculation(h, now)
    ELSE h

\* variant: an update that stores something reopens a completed session
ApplyCall_reopening(h, call, now) ==
    IF call.name = "update_subsidy_data"
    THEN LET u == update_consultation_data(h.cd, call.arguments)
         IN  [h EXCEPT !.cd = u.cd, !.corrected = u.corrected,
                       !.data_updated = @ \/ u.updated,
                       !.session.status = IF u.updated THEN "ACTIVE" ELSE @]
    ELSE IF call.name = "confirm_data"
    THEN IF ConfirmedArgument(call)
         THEN RunCalculation([h EXCEPT !.cd.data_confirmed = TRUE], now)
         ELSE h
    ELSE IF call.name = "calculate_subsidy"
    THEN IF h.cd.data_confirmed THEN RunCalculation(h, now) ELSE h
    ELSE h

\* one iteration of "for call in ai_result['function_calls']"
ApplyCall(h, call, now) ==
    IF call.name = "update_subsidy_data"
    THEN LET u == update_consultation_data(h.cd, call.arguments)
         IN  [h EXCEPT !.cd = u.cd, !.corrected = u.corrected,
                       !.data_updated = @ \/ u.updated]
    ELSE IF call.name = "confirm_data"
    THEN IF ConfirmedArgument(call)
         THEN RunCalculation([h EXCEPT !.cd.data_confirmed = TRUE], now)
         ELSE h
    ELSE IF call.name = "calculate_subsidy"
    THEN IF h.cd.data_confirmed THEN RunCalculation(h, now) ELSE h
    ELSE h

\* variant: the calls of a result are applied from the last to the first
RECURSIVE ApplyCalls_last_first(_, _, _)
ApplyCalls_last_first(h, calls, now) ==
    IF calls = <<>> THEN h
    ELSE ApplyCall(ApplyCalls_last_first(h, Tail(calls), now), Head(calls), now)

RECURSIVE ApplyCalls(_, _, _)
ApplyCalls(h, calls, now) ==
    IF calls = <<>> THEN h
    ELSE ApplyCalls(ApplyCall(h, Head(calls), now), Tail(calls), now)

\* _get_natural_confirmation: the acknowledgement names the first corrected
\* field when the last update recorded a correction, and is one of the
\* first-answer phrases otherwise
get_natural_confirmation(corrected) ==
    IF corrected # <<>> THEN [type |-> "correction", field |-> Head(corrected)]
    ELSE [type |-> "first_answer", field |-> ""]

NoAck == [type |-> "none", field |-> ""]

Reply(kind, ack, prompt, result) ==
    [kind |-> kind, ack |-> ack, prompt |-> prompt, result |-> result]

\* variant: asking again without an update takes the summary already shown
\* as confirmed
BuildResponse_summary_shown(h, message) ==
    IF h.calculation_done /\ IsSet(h.calculation_result)
    THEN IF message \in {"", "short"}
         THEN Reply("result", NoAck, NoPrompt, h.calculation_result)
         ELSE Reply("ai_text", NoAck, NoPrompt, None)
    ELSE IF h.data_updated
    THEN Reply("ack_next", get_natural_confirmation(h.corrected),
               get_next_field_question(h.cd), None)
    ELSE IF message = ""
    THEN Reply("next", NoAck,
               get_next_field_question([h.cd EXCEPT !.data_confirmed = TRUE]), None)
    ELSE Reply("ai_text", NoAck, NoPrompt, None)

\* the reply text of process_message, by its parts
BuildResponse(h, message) ==
    IF h.calculation_done /\ IsSet(h.calculation_result)
    THEN IF message \in {"", "short"}
         THEN Reply("result", NoAck, NoPrompt, h.calculation_result)
         ELSE Reply("ai_text", NoAck, NoPrompt, None)
    ELSE IF h.data_updated
    THEN Reply("ack_next", get_natural_confirmation(h.corrected),
               get_next_field_question(h.cd), None)
    ELSE IF message = ""
    THEN Reply("next", NoAck, get_next_field_question(h.cd), None)
    ELSE Reply("ai_text", NoAck, NoPrompt, None)

CallHead(call) == [name |-> call.name, confirmed |-> ConfirmedArgument(call)]

CallHeads(calls) == [i \in 1..Len(calls) |-> CallHead(calls[i])]

ErrorResult == [error |-> TRUE, message |-> "apology", function_calls |-> <<>>]

OkResult(message, calls) == [error |-> FALSE, message |-> message, function_calls |-> calls]

\* variant: an oracle error withdraws the confirmation of the data
process_message_error_unconfirms(ai_result) ==
    /\ turns < MaxTurns
    /\ turns' = turns + 1
    /\ IF ai_result.error
       THEN /\ response' = Reply("apology", NoAck, NoPrompt, None)
            /\ is_completed' = FALSE
            /\ corrected_fields' = <<>>
            /\ last_calls' = <<>>
            /\ consultation_data' = [consultation_data EXCEPT !.data_confirmed = FALSE]
            /\ UNCHANGED session
       ELSE LET h == ApplyCalls(NewHandler(consultation_data, session),
                                ai_result.function_calls, turns + 1)
            IN  /\ consultation_data' = h.cd
                /\ session' = h.session
                /\ corrected_fields' = h.corrected
                /\ response' = BuildResponse(h, ai_result.message)
                /\ is_completed' = h.completed
                /\ last_calls' = CallHeads(ai_result.function_calls)
    /\ UNCHANGED <<calc_request, calc_response,
                   chat_sessions, subsidy_consultations, last_request>>

process_message(ai_result) ==
    /\ turns < MaxTurns
    /\ turns' = turns + 1
    /\ IF ai_result.error
       THEN /\ response' = Reply("apology", NoAck, NoPrompt, None)
            /\ is_completed' = FALSE
            /\ corrected_fields' = <<>>
            /\ last_calls' = <<>>
            /\ UNCHANGED <<consultation_data, session>>
       ELSE LET h == ApplyCalls(NewHandler(consultation_data, session),
                                ai_result.function_calls, turns + 1)
            IN  /\ consultation_data' = h.cd
                /\ session' = h.session
                /\ corrected_fields' = h.corrected
                /\ response' = BuildResponse(h, ai_result.message)
                /\ is_completed' = h.completed
                /\ last_calls' = CallHeads(ai_result.function_calls)
    /\ UNCHANGED <<calc_request, calc_response,
                   chat_sessions, subsidy_consultations, last_request>>

\* no request has been served on the tables
NoRequest ==
    [endpoint |-> "none", user_id |-> 0, session_id |-> 0, created |-> FALSE,
     previous_session_id |-> 0]

(***************************************************************************)
(* The results the oracle may return                                       *)
(***************************************************************************)
One(f, a) == [k \in {f} |-> a]

SingleArgs ==
    {One("project_type", a) : a \in {NullArg, StrArg(""), StrArg(PT_RESEARCH),
                                     StrArg(PT_MARKETING)}}
    \cup {One("budget", a) : a \in {NullArg, BadArg, IntArg(0), IntArg(5000000)}}
    \cup {One("people", a) : a \in {IntArg(0), IntArg(20)}}
    \cup {One("capital", a) : a \in {IntArg(0)}}
    \cup {One("revenue", a) : a \in {IntArg(0), IntArg(30000000)}}
    \cup {One("growth_revenue", a) : a \in {IntArg(2000000)}}
    \cup {One(f, BoolArg(b)) : f \in BoolFields, b \in BOOLEAN}
    \cup {One("marketing_type", a) : a \in {StrArg(""), StrArg("export"),
                                            StrArg("domestic, export")}}

\* the user volunteers several facts at once
BaseBatch(pt) ==
    [k \in {"project_type", "budget", "people", "capital", "revenue"} |->
        CASE k = "project_type" -> StrArg(pt)
          [] k = "budget" -> IntArg(5000000)
          [] k = "people" -> IntArg(20)
          [] k = "capital" -> IntArg(10000000)
          [] k = "revenue" -> IntArg(30000000)]

FlagBatch == [k \in BoolFields |-> BoolArg(k \in {"has_certification", "is_mit"})]

\* the first three flags answered in one message
EarlyFlagBatch ==
    [k \in {"has_certification", "has_gov_award", "is_mit"} |-> BoolArg(k # "has_gov_award")]

\* the first four fields of a research project answered in one message
FirstFourBatch ==
    [k \in {"project_type", "budget", "people", "capital"} |-> BaseBatch(PT_RESEARCH)[k]]

MarketingBatch ==
    [k \in {"marketing_type", "growth_revenue"} |->
        IF k = "marketing_type" THEN StrArg("export") ELSE IntArg(2000000)]

\* every field a research project needs
FullBatch(pt) == BaseBatch(pt) @@ FlagBatch

\* every field a marketing project needs
FullMarketingBatch == FullBatch(PT_MARKETING) @@ MarketingBatch

\* the project type is changed and the budget given is not a number
BadBudgetBatch ==
    [k \in {"project_type", "budget"} |->
        IF k = "project_type" THEN StrArg(PT_MARKETING) ELSE BadArg]

BatchArgs ==
    {FirstFourBatch, BaseBatch(PT_MARKETING), EarlyFlagBatch, MarketingBatch,
     FullBatch(PT_RESEARCH), FullMarketingBatch, BadBudgetBatch}

\* updates that share a result with a confirmation
PairArgs ==
    {One("revenue", IntArg(0)), One("is_mit", BoolArg(TRUE)),
     One("project_type", StrArg(PT_MARKETING))}

CallLists ==
    {<<>>, <<ConfirmCall(TRUE)>>, <<ConfirmCall(FALSE)>>, <<ConfirmCallNoArg>>,
     <<CalculateCall>>, <<UnknownCall>>,
     <<ConfirmCall(TRUE), CalculateCall>>}
    \cup {<<UpdateCall(d)>> : d \in SingleArgs \cup BatchArgs}
    \cup {<<UpdateCall(d), ConfirmCall(TRUE)>> : d \in PairArgs}
    \cup {<<ConfirmCall(TRUE), UpdateCall(d)>> : d \in PairArgs}
    \cup {<<UpdateCall(One("people", IntArg(20))), UpdateCall(BadBudgetBatch)>>}

\* results in which the oracle also returned text of its own
TextCallLists ==
    {<<>>, <<ConfirmCall(TRUE)>>, <<UpdateCall(One("budget", IntArg(0)))>>}

OracleResults ==
    {ErrorResult}
    \cup {OkResult("", calls) : calls \in CallLists}
    \cup {OkResult(m, calls) : m \in {"short", "long"}, calls \in TextCallLists}

(***************************************************************************)
(* Specification                                                           *)
(***************************************************************************)
\* create_session followed by the welcome message, which asks the first field
Init ==
    /\ consultation_data = NewConsultation
    /\ session = NewSession
    /\ corrected_fields = <<>>
    /\ response = Reply("welcome", NoAck, Ask("project_type"), None)
    /\ is_completed = FALSE
    /\ last_calls = <<>>
    /\ turns = 0
    /\ calc_request = None
    /\ calc_response = None
    /\ chat_sessions = <<>>
    /\ subsidy_consultations = <<>>
    /\ last_request = NoRequest

Next == \E ai_result \in OracleResults : process_message(ai_result)

Spec == Init /\ [][Next]_vars

(***************************************************************************)
(* The standalone calculation endpoint, POST /api/subsidy/calculate: the   *)
(* calculation engine applied to a request body, without a session         *)
(***************************************************************************)
CalcBudgets == {0, 9, 300000, 5000000, 12000000}

CalcRevenues == {0, 4, 5, 9374999, 9375000, 9999999, 10000000, 12499999, 12500000,
                 14999999, 15000000, 22500000, 30000000}

CalcMarketingTypes == {None, Some("export"), Some("domestic"), Some("domestic, export")}

\* a SubsidyConsultationCreate body
CalcRequest(project_type, budget, people, revenue, bonus_count, marketing_type) ==
    [project_type |-> project_type, budget |-> budget, people |-> people,
     capital |-> Some(10000000), revenue |-> revenue, growth_revenue |-> None,
     bonus_count |-> bonus_count, marketing_type |-> marketing_type]

CompleteCalcRequests ==
    {CalcRequest(Some(pt), Some(budget), Some(people), Some(revenue), Some(bonus), mt) :
        pt \in {PT_RESEARCH, PT_MARKETING}, budget \in CalcBudgets,
        people \in 0..MaxPeople, revenue \in CalcRevenues,
        bonus \in 0..MaxBonusCount, mt \in CalcMarketingTypes}

\* bodies that leave out a field
PartialCalcRequests ==
    LET full == CalcRequest(Some(PT_RESEARCH), Some(5000000), Some(20),
                            Some(30000000), Some(3), None)
    IN  {[full EXCEPT ![f] = None] :
            f \in {"project_type", "budget", "people", "capital", "revenue", "bonus_count"}}

CalcRequests == CompleteCalcRequests \cup PartialCalcRequests

BadRequest(field) == [status |-> "bad_request", detail |-> field, result |-> None]

CalcOk(result) == [status |-> "ok", detail |-> "", result |-> Some(result)]

\* the answer of calculate_subsidy_amount to the body data
calculate_subsidy_amount_response(data) ==
    IF ~IsSet(data.project_type) \/ data.project_type = Some("")
    THEN BadRequest("project_type")
    ELSE IF ~IsSet(data.budget) THEN BadRequest("budget")
    ELSE IF ~IsSet(data.people) THEN BadRequest("people")
    ELSE IF ~IsSet(data.capital) THEN BadRequest("capital")
    ELSE IF ~IsSet(data.revenue) THEN BadRequest("revenue")
    ELSE LET marketing_types == IF IsSet(data.marketing_type)
                                    /\ data.marketing_type # Some("")
                                THEN SplitMarketing(Val(data.marketing_type))
                                ELSE <<>>
         IN  CalcOk(calculate_all(Val(data.budget), Val(data.people), Val(data.revenue),
                                  OrZero(data.bonus_count), Val(data.project_type),
                                  marketing_types))

calculate_subsidy_amount ==
    /\ IsSet(calc_request)
    /\ ~IsSet(calc_response)
    /\ calc_response' = Some(calculate_subsidy_amount_response(Val(calc_request)))
    /\ UNCHANGED <<consultation_data, session, corrected_fields, response,
                   is_completed, last_calls, turns, calc_request,
                   chat_sessions, subsidy_consultations, last_request>>

\* a request has arrived at the endpoint
InitCalc ==
    /\ consultation_data = NewConsultation
    /\ session = NewSession
    /\ corrected_fields = <<>>
    /\ response = Reply("welcome", NoAck, Ask("project_type"), None)
    /\ is_completed = FALSE
    /\ last_calls = <<>>
    /\ turns = 0
    /\ calc_request \in {Some(data) : data \in CalcRequests}
    /\ calc_response = None
    /\ chat_sessions = <<>>
    /\ subsidy_consultations = <<>>
    /\ last_request = NoRequest

NextCalc == calculate_subsidy_amount

SpecCalc == InitCalc /\ [][NextCalc]_vars

(***************************************************************************)
(* Several sessions of several users in the tables chat_sessions and       *)
(* subsidy_consultations: the endpoints POST /api/subsidy/chat and         *)
(* POST /api/subsidy/sessions/new.  A session id of 0 stands for an absent *)
(* one (None), which the code tests by truthiness.                         *)
(***************************************************************************)
Users == {1, 2}

SessionRow(user_id, sess) ==
    [user_id |-> user_id, status |-> sess.status, completed_at |-> sess.completed_at]

ConsultationRow(chat_session_id, user_id, data) ==
    [chat_session_id |-> chat_session_id, user_id |-> user_id, data |-> data]

\* the ChatSession query of __init__: the id of the session with this id and
\* this user, 0 when there is none
FindSession(sessions, session_id, user_id) ==
    IF /\ session_id # 0
       /\ session_id \in 1..Len(sessions)
       /\ sessions[session_id].user_id = user_id
    THEN session_id
    ELSE 0

\* variant: the latest consultation row is taken, whatever session it is of
FindConsultation_latest(consultations, session_id) == Len(consultations)

\* the SubsidyConsultation query: the position of the first row with this
\* chat_session_id, 0 when there is none
FindConsultation(consultations, session_id) ==
    LET hits == {i \in 1..Len(consultations) :
                    consultations[i].chat_session_id = session_id}
    IN  IF hits = {} THEN 0 ELSE CHOOSE i \in hits : \A j \in hits : i <= j

\* create_session on the tables
create_session(sessions, consultations, user_id) ==
    LET id == Len(sessions) + 1
    IN  [sessions |-> Append(sessions, SessionRow(user_id, NewSession)),
         consultations |-> Append(consultations,
                                  ConsultationRow(id, user_id, NewConsultation)),
         session_id |-> id]

\* the attributes create_new_subsidy_session copies from the previous record
CopiedFields ==
    {"project_type", "budget", "people", "capital", "revenue",
     "has_certification", "has_gov_award", "is_mit", "has_industry_academia",
     "has_factory_registration", "bonus_count", "bonus_details",
     "marketing_type", "growth_revenue"}

\* variant: the grant fields are copied as well
CopyConsultation_with_grants(new_consultation, previous_consultation) ==
    [f \in DOMAIN new_consultation |->
        IF f \in CopiedFields \cup {"grant_min", "grant_max", "recommended_plans"}
        THEN previous_consultation[f]
        ELSE new_consultation[f]]

CopyConsultation(new_consultation, previous_consultation) ==
    [f \in DOMAIN new_consultation |->
        IF f \in CopiedFields THEN previous_consultation[f] ELSE new_consultation[f]]

send_subsidy_chatbot_message(user_id, session_id, ai_result) ==
    /\ turns < MaxRequests
    /\ turns' = turns + 1
    /\ LET sid == FindSession(chat_sessions, session_id, user_id)
       IN  IF sid = 0
           THEN LET c == create_session(chat_sessions, subsidy_consultations, user_id)
                IN  /\ Len(chat_sessions) < MaxSessions
                    /\ chat_sessions' = c.sessions
                    /\ subsidy_consultations' = c.consultations
                    /\ last_request' = [endpoint |-> "chat", user_id |-> user_id,
                                        session_id |-> c.session_id, created |-> TRUE,
                                        previous_session_id |-> 0]
           ELSE LET ci == FindConsultation(subsidy_consultations, sid)
                    row == chat_sessions[sid]
                    start == NewHandler(subsidy_consultations[ci].data,
                                        [status |-> row.status,
                                         completed_at |-> row.completed_at])
                    h == IF ai_result.error THEN start
                         ELSE ApplyCalls(start, ai_result.function_calls, turns + 1)
                IN  /\ chat_sessions' =
                           [chat_sessions EXCEPT ![sid] = SessionRow(row.user_id, h.session)]
                    /\ subsidy_consultations' =
                           [subsidy_consultations EXCEPT ![ci].data = h.cd]
                    /\ last_request' = [endpoint |-> "chat", user_id |-> user_id,
                                        session_id |-> sid, created |-> FALSE,
                                        previous_session_id |-> 0]
    /\ UNCHANGED <<consultation_data, session, corrected_fields, response,
                   is_completed, last_calls, calc_request, calc_response>>

create_new_subsidy_session(user_id, previous_session_id) ==
    /\ turns < MaxRequests
    /\ turns' = turns + 1
    /\ Len(chat_sessions) < MaxSessions
    /\ LET c == create_session(chat_sessions, subsidy_consultations, user_id)
           pi == IF previous_session_id # 0
                 THEN FindConsultation(subsidy_consultations, previous_session_id)
                 ELSE 0
           ni == Len(c.consultations)
       IN  /\ chat_sessions' = c.sessions
           /\ subsidy_consultations' =
                  IF pi = 0 THEN c.consultations
                  ELSE [c.consultations EXCEPT
                           ![ni].data = CopyConsultation(@, subsidy_consultations[pi].data)]
           /\ last_request' = [endpoint |-> "new_session", user_id |-> user_id,
                               session_id |-> c.session_id, created |-> TRUE,
                               previous_session_id |-> previous_session_id]
    /\ UNCHANGED <<consultation_data, session, corrected_fields, response,
                   is_completed, last_calls, calc_request, calc_response>>

\* the oracle results of the requests on the tables
DbOracleResults ==
    {ErrorResult,
     OkResult("", <<UpdateCall(FullBatch(PT_RESEARCH))>>),
     OkResult("", <<UpdateCall(One("people", IntArg(0)))>>),
     OkResult("", <<ConfirmCall(TRUE)>>),
     OkResult("", <<CalculateCall>>)}

NextDb ==
    \E user_id \in Users :
        \/ \E session_id \in 0..MaxSessions, ai_result \in DbOracleResults :
              send_subsidy_chatbot_message(user_id, session_id, ai_result)
        \/ \E previous_session_id \in 0..MaxSessions :
              create_new_subsidy_session(user_id, previous_session_id)

SpecDb == Init /\ [][NextDb]_vars

(***************************************************************************)
(* Vocabulary of the properties                                            *)
(***************************************************************************)
BaseFields == {"project_type", "budget", "people", "capital", "revenue"}

MarketingFields == {"marketing_type", "growth_revenue"}

\* the fields a record of this project type has to hold before confirmation
RequiredFields(cd) ==
    BaseFields \cup BoolFields
    \cup (IF cd.project_type = Some(PT_MARKETING) THEN MarketingFields ELSE {})

AllRequiredSet(cd) == \A f \in RequiredFields(cd) : IsSet(cd[f])

GrantsUnset(cd) ==
    ~IsSet(cd.grant_min) /\ ~IsSet(cd.grant_max) /\ ~IsSet(cd.recommended_plans)

ConfirmTrueHead == [name |-> "confirm_data", confirmed |-> TRUE]

CalculateHead == [name |-> "calculate_subsidy", confirmed |-> FALSE]

\* the turn applied a calculation as its last function call and it succeeded
CalculatedLast ==
    /\ is_completed
    /\ last_calls # <<>>
    /\ last_calls[Len(last_calls)].name \in {"confirm_data", "calculate_subsidy"}

\* calculate() on the values the record holds now
Recalculate(cd) ==
    calculate_all(Val(cd.budget), Val(cd.people), Val(cd.revenue),
                  OrZero(cd.bonus_count), Val(cd.project_type),
                  IF IsSet(cd.marketing_type) THEN SplitMarketing(Val(cd.marketing_type))
                  ELSE <<>>)

(***************************************************************************)
(* C1..C10                                                                 *)
(***************************************************************************)
\* C1: a confirm(confirmed=true) processed while a required field is unset
\* leaves data_confirmed false, writes no grant field and leaves the session
\* ACTIVE and not completed.
C1_ConfirmIncompleteIsRejected ==
    [][(/\ last_calls' = <<ConfirmTrueHead>>
        /\ ~AllRequiredSet(consultation_data))
       => (/\ consultation_data'.data_confirmed = FALSE
           /\ GrantsUnset(consultation_data')
           /\ session'.status = "ACTIVE"
           /\ ~is_completed')]_vars

\* C2: with data_confirmed false, a request_calculation intent writes no grant
\* field, changes no record field, does not set data_confirmed and leaves the
\* session ACTIVE without completion timestamp.
C2_CalculationBeforeConfirmationIsNoOp ==
    [][(/\ last_calls' = <<CalculateHead>>
        /\ ~consultation_data.data_confirmed)
       => (/\ consultation_data' = consultation_data
           /\ GrantsUnset(consultation_data')
           /\ ~consultation_data'.data_confirmed
           /\ session' = session
           /\ session'.status = "ACTIVE"
           /\ session'.completed_at = None
           /\ ~is_completed')]_vars

\* C2 witness: a calculation request was turned down although the five base
\* fields were there.
C2_Witness ==
    /\ last_calls = <<CalculateHead>>
    /\ ~consultation_data.data_confirmed
    /\ \A f \in BaseFields : IsSet(consultation_data[f])

C5_BonusCountAndDetails ==
    LET cd == consultation_data
        yes == {f \in BoolFields : cd[f] = Some(TRUE)}
        Entry(f) == IF f \in yes THEN <<f>> ELSE <<>>
        listed == Entry("has_certification") \o Entry("has_gov_award") \o Entry("is_mit")
                  \o Entry("has_industry_academia") \o Entry("has_factory_registration")
    IN  /\ cd.bonus_count = Some(Cardinality(yes))
        /\ cd.bonus_details = IF yes = {} THEN None ELSE Some(listed)

\* C5 witness: a flag answered yes was switched to no while another stays yes.
C5_Witness ==
    /\ corrected_fields = <<"is_mit">>
    /\ consultation_data.is_mit = Some(FALSE)
    /\ consultation_data.has_certification = Some(TRUE)
    /\ consultation_data.bonus_count = Some(1)

\* the value an argument carries, by its type
ArgValue(a) == IF a.tag = "int" THEN Some(a.n)
               ELSE IF a.tag = "bool" THEN Some(a.b)
               ELSE Some(a.s)

\* the field is supplied with a value (not null, not an empty answer)
Supplied(d, f) ==
    /\ f \in DOMAIN d
    /\ d[f].tag \in {"int", "bool", "str"}
    /\ ~(d[f].tag = "str" /\ d[f].s = "")

\* every supplied value has the type of its field
WellTyped(d) == \A f \in DOMAIN d : d[f].tag # "bad"

\* the fields of d that the claim calls corrections of the record cd
ExpectedCorrections(cd, d) ==
    SelectSeq(UpdateOrder,
              LAMBDA f : Supplied(d, f) /\ IsSet(cd[f]) /\ cd[f] # ArgValue(d[f]))

AskingOrder(cd) ==
    <<"project_type", "budget", "people", "capital", "revenue",
      "has_certification", "has_gov_award", "is_mit",
      "has_industry_academia", "has_factory_registration">>
    \o (IF cd.project_type = Some(PT_MARKETING)
        THEN <<"marketing_type", "growth_revenue">> ELSE <<>>)

Unanswered(cd) == {i \in 1..Len(AskingOrder(cd)) : ~IsSet(cd[AskingOrder(cd)[i]])}

\* the reply of the turn carries a prompt computed by get_next_field_question
ReplyHasPrompt == response.kind \in {"next", "ack_next"}

\* C7: next_prompt asks for the first unset field of the order project_type,
\* budget, people, capital, revenue, the five flags, then (MARKETING only)
\* marketing_type, growth_revenue; it asks nothing once none is unset.
C7_AsksFirstUnsetField ==
    LET cd == consultation_data
        p == get_next_field_question(cd)
        open == Unanswered(cd)
    IN  /\ open # {} =>
              p = Ask(AskingOrder(cd)[CHOOSE i \in open : \A j \in open : i <= j])
        /\ open = {} => p.kind # "ask"
        /\ cd.project_type # Some(PT_MARKETING) =>
              p.field \notin {"marketing_type", "growth_revenue"}
        /\ ReplyHasPrompt => response.prompt = p

\* C7 witness: the reply asks for budget although the later field revenue
\* has been answered already.
C7_Witness ==
    /\ ReplyHasPrompt
    /\ response.prompt = Ask("budget")
    /\ IsSet(consultation_data.revenue)

\* C8: a field that is set stays set and is not asked for again, whatever the
\* turn does (corrections, null values, project_type changes, confirmations,
\* calculation requests).
C8_SetFieldsStaySetAndUnasked ==
    [][\A f \in BaseFields \cup BoolFields \cup MarketingFields :
          IsSet(consultation_data[f])
          => /\ IsSet(consultation_data'[f])
             /\ get_next_field_question(consultation_data') # Ask(f)
             /\ response'.prompt # Ask(f)]_vars

\* C8 witness: the project type of a record with answered flags was changed
\* and the next question is a marketing one.
C8_Witness ==
    /\ corrected_fields = <<"project_type">>
    /\ IsSet(consultation_data.has_certification)
    /\ response.prompt = Ask("marketing_type")

\* C9: next_prompt returns the summary / confirmation request exactly when
\* all required fields are set and data_confirmed is false.
C9_SummaryIffCompleteAndUnconfirmed ==
    LET cd == consultation_data
        p == get_next_field_question(cd)
    IN  /\ (p.kind = "summary") <=> (AllRequiredSet(cd) /\ ~cd.data_confirmed)
        /\ ReplyHasPrompt => response.prompt = p

\* C9 witness: the reply to an update that completed a marketing record shows
\* the summary.
C9_Witness ==
    /\ ReplyHasPrompt
    /\ response.prompt.kind = "summary"
    /\ consultation_data.project_type = Some(PT_MARKETING)

\* C10: when data_confirmed is true and no calculation has run, next_prompt
\* returns the ready-to-calculate descriptor.
C10_ConfirmedUncalculatedIsReady ==
    (consultation_data.data_confirmed /\ GrantsUnset(consultation_data))
    => /\ get_next_field_question(consultation_data) = ReadyPrompt
       /\ ReplyHasPrompt => response.prompt = ReadyPrompt

(***************************************************************************)
(* C11..C20                                                                *)
(***************************************************************************)
\* C11: a turn in which the oracle returns no function call and no text is a
\* bare call of get_next_field_question.  It changes no field of the record
\* (bonus_count, bonus_details, data_confirmed and the grant fields included)
\* and nothing of the session, and when the reply before it carried a prompt
\* it returns that same prompt again.
C11_NextPromptIdempotent ==
    [][(/\ last_calls' = <<>>
        /\ response'.kind = "next")
       => (/\ consultation_data' = consultation_data
           /\ session' = session
           /\ response'.prompt = get_next_field_question(consultation_data')
           /\ (ReplyHasPrompt => response'.prompt = response.prompt))]_vars

\* C11 witness: the summary was asked for again on a full, unconfirmed record.
C11_Witness ==
    /\ last_calls = <<>>
    /\ response.kind = "next"
    /\ response.prompt.kind = "summary"
    /\ turns >= 2

\* a confirm_data(confirmed = true) call of the turn was accepted: the turn
\* took data_confirmed from false to true
ConfirmAccepted ==
    /\ \E i \in 1..Len(last_calls') : last_calls'[i] = ConfirmTrueHead
    /\ ~consultation_data.data_confirmed
    /\ consultation_data'.data_confirmed

GrantsSet(cd) ==
    IsSet(cd.grant_min) /\ IsSet(cd.grant_max) /\ IsSet(cd.recommended_plans)

\* C12: a turn in which a confirm(true) is accepted also runs the
\* calculation: it ends with the session COMPLETED, the three grant fields
\* written and session_completed true.
C12_AcceptedConfirmCalculates ==
    [][ConfirmAccepted
       => (/\ session'.status = "COMPLETED"
           /\ GrantsSet(consultation_data')
           /\ is_completed')]_vars

\* C13: the grant fields are populated exactly when the session is COMPLETED,
\* the session is COMPLETED exactly when its completion timestamp is set, and
\* grant_min, grant_max and recommended_plans are all set or all unset.
C13_GrantsIffCompleted ==
    /\ GrantsSet(consultation_data) \/ GrantsUnset(consultation_data)
    /\ GrantsSet(consultation_data) <=> session.status = "COMPLETED"
    /\ session.status = "COMPLETED" <=> IsSet(session.completed_at)

\* C13 witness: a completed session with its grants, after a calculation
\* that recommended no plan (the written text is the empty join).
C13_Witness ==
    /\ session.status = "COMPLETED"
    /\ IsSet(session.completed_at)
    /\ GrantsSet(consultation_data)
    /\ consultation_data.recommended_plans = Some(<<>>)

\* C14: a session starts ACTIVE, its status is only ever ACTIVE or COMPLETED,
\* and a COMPLETED session stays COMPLETED: the only move is from ACTIVE to
\* COMPLETED, and ABANDONED is never entered.
C14_StatusOnlyForward ==
    /\ session.status = "ACTIVE"
    /\ [][/\ session'.status \in {"ACTIVE", "COMPLETED"}
          /\ session.status = "COMPLETED" => session'.status = "COMPLETED"]_vars

\* C14 witness: a turn that stored an update was processed after the turn
\* that completed the session.
C14_Witness ==
    /\ session.status = "COMPLETED"
    /\ Val(session.completed_at) < turns
    /\ response.kind = "ack_next"

\* C15: when the oracle reports an error the turn answers with the apology,
\* returns session_completed = false, applies no function call and leaves the
\* record (data_confirmed and grant fields included) and the session as they
\* were.
C15_OracleErrorChangesNothing ==
    [][response'.kind = "apology"
       => (/\ consultation_data' = consultation_data
           /\ session' = session
           /\ last_calls' = <<>>
           /\ ~is_completed')]_vars

\* C15 witness: the oracle failed on a session that was already completed
\* and whose data was confirmed.
C15_Witness ==
    /\ response.kind = "apology"
    /\ session.status = "COMPLETED"
    /\ consultation_data.data_confirmed
    /\ ~is_completed

\* the fields a calculation needs: the five base fields and, for a MARKETING
\* project, marketing_type and growth_revenue
CalculationInputSet(cd) ==
    /\ \A f \in BaseFields : IsSet(cd[f])
    /\ cd.project_type = Some(PT_MARKETING) => \A f \in MarketingFields : IsSet(cd[f])

\* the turn consists of one attempt to calculate: a confirm(true), or a
\* calculate_subsidy on confirmed data
CalculationAttempt ==
    \/ last_calls' = <<ConfirmTrueHead>>
    \/ last_calls' = <<CalculateHead>> /\ consultation_data.data_confirmed

CalcAnswered == IsSet(calc_response) /\ Val(calc_response).status = "ok"

\* the request body and the calculation it was answered with
CalcIn == Val(calc_request)

CalcOut == Val(Val(calc_response).result)

\* C17: grant_min is the floor of three quarters of grant_max, for every
\* request with non-negative integer inputs.
C17_GrantMinIsFloorOfThreeQuarters ==
    CalcAnswered =>
        /\ 4 * CalcOut.grant_min <= 3 * CalcOut.grant_max
        /\ 3 * CalcOut.grant_max < 4 * CalcOut.grant_min + 4

\* C17 witness: a calculation in which three quarters of grant_max is not a
\* whole number, so that the floor acts.
C17_Witness ==
    /\ CalcAnswered
    /\ CalcOut.grant_max > 1000000
    /\ (3 * CalcOut.grant_max) % 4 # 0

\* the request of the worked example: people 20, budget 5,000,000, capital
\* 10,000,000, revenue 30,000,000, three bonus items, a RESEARCH project
ExampleRequest ==
    CalcRequest(Some(PT_RESEARCH), Some(5000000), Some(20), Some(30000000), Some(3), None)

\* C18: grant_max is the smaller of employee grant + revenue bonus + bonus
\* amount and the upper limit, the upper limit being the smaller of 4,500,000
\* and the floor of a fifth of the revenue.  The worked example yields
\* 3,000,000 + 500,000 + 350,000 under the limit 4,500,000: grant_max
\* 3,850,000 and grant_min 2,887,500.
C18_GrantMaxIsCappedSum ==
    CalcAnswered =>
        LET b == CalcOut.breakdown
            revenue == Val(CalcIn.revenue)
        IN  /\ b.upper_limit = Min(4500000, revenue \div 5)
            /\ CalcOut.grant_max =
                   Min(b.grant_employee + b.grant_revenue_bonus + b.bonus_amount,
                       b.upper_limit)
            /\ CalcIn = ExampleRequest
                 => /\ b.grant_employee = 3000000
                    /\ b.grant_revenue_bonus = 500000
                    /\ b.bonus_amount = 350000
                    /\ b.upper_limit = 4500000
                    /\ CalcOut.grant_max = 3850000
                    /\ CalcOut.grant_min = 2887500

\* C18 witness: the worked example has been calculated.
C18_Witness ==
    /\ CalcAnswered
    /\ CalcIn = ExampleRequest
    /\ CalcOut.grant_max = 3850000

\* C19: the revenue bonus is the floor of a tenth of the budget whenever the
\* revenue is at least five times the employee grant, also when that is less
\* than the base bonus; otherwise it is 500,000 from a revenue of 10,000,000
\* on and 0 below.
C19_RevenueBonusRule ==
    CalcAnswered =>
        LET b == CalcOut.breakdown
            revenue == Val(CalcIn.revenue)
            budget == Val(CalcIn.budget)
        IN  b.grant_revenue_bonus =
                IF revenue >= b.grant_employee * 5 THEN budget \div 10
                ELSE IF revenue >= 10000000 THEN 500000
                ELSE 0

\* C19 witness: a request whose revenue bonus is lower than that of the same
\* request with a smaller revenue.
C19_Witness ==
    /\ CalcAnswered
    /\ \E lower \in CalcRevenues :
          /\ lower < Val(CalcIn.revenue)
          /\ LET other == calculate_subsidy_amount_response(
                              [CalcIn EXCEPT !.revenue = Some(lower)])
             IN  Val(other.result).breakdown.grant_revenue_bonus
                     > CalcOut.breakdown.grant_revenue_bonus

\* C20: the bonus amount for 0, 1, 2, 3, 4, 5 items is 0, 100,000, 300,000,
\* 350,000, 360,000, 360,000, and a count above five gives what five gives.
C20_BonusAmountTable ==
    CalcAnswered =>
        LET count == OrZero(CalcIn.bonus_count)
            table == <<0, 100000, 300000, 350000, 360000, 360000>>
        IN  CalcOut.breakdown.bonus_amount = table[Min(count, 5) + 1]

\* C20 witness: a request with more than five bonus items was calculated.
C20_Witness ==
    /\ CalcAnswered
    /\ OrZero(CalcIn.bonus_count) > 5
    /\ CalcOut.breakdown.bonus_amount = 360000

(***************************************************************************)
(* C21..C30                                                                *)
(***************************************************************************)
\* C21: for a RESEARCH project the recommended plans are local SBIR (always,
\* also for grant_max = 0), then CITD iff the threshold floor(grant_max * 0.8)
\* is at least 1,500,000, then central SBIR iff it is at least 2,000,000, in
\* that order; central SBIR never comes without CITD and the list is never
\* empty.
C21_ResearchPlans ==
    (CalcAnswered /\ CalcIn.project_type = Some(PT_RESEARCH)) =>
        LET threshold == (CalcOut.grant_max * 4) \div 5
            plans == CalcOut.recommended_plans
        IN  /\ plans = <<"local_SBIR">>
                       \o (IF threshold >= 1500000 THEN <<"CITD">> ELSE <<>>)
                       \o (IF threshold >= 2000000 THEN <<"central_SBIR">> ELSE <<>>)
            /\ plans # <<>>
            /\ (\E i \in 1..Len(plans) : plans[i] = "central_SBIR")
                 => plans[2] = "CITD"

\* C21 witness: a threshold of exactly 1,500,000 recommends CITD but not
\* central SBIR.
C21_Witness ==
    /\ CalcAnswered
    /\ CalcIn.project_type = Some(PT_RESEARCH)
    /\ CalcOut.grant_max = 1875000
    /\ CalcOut.recommended_plans = <<"local_SBIR", "CITD">>

\* the items of the marketing_type text of the request
CalcMarketingItems ==
    IF IsSet(CalcIn.marketing_type)
    THEN {SplitMarketing(Val(CalcIn.marketing_type))[i] :
             i \in 1..Len(SplitMarketing(Val(CalcIn.marketing_type)))}
    ELSE {}

\* C22: for a MARKETING project the recommended plans hold the overseas
\* market plan iff marketing_type contains EXPORT and the domestic promotion
\* plan iff it contains DOMESTIC, the overseas plan first, whatever grant_max
\* is; for marketing_type = {EXPORT} the list is the overseas plan alone.
C22_MarketingPlans ==
    (CalcAnswered /\ CalcIn.project_type = Some(PT_MARKETING)) =>
        /\ CalcOut.recommended_plans =
               (IF MT_EXPORT \in CalcMarketingItems
                THEN <<"overseas_market_plan">> ELSE <<>>)
               \o (IF MT_DOMESTIC \in CalcMarketingItems
                   THEN <<"domestic_promotion_plan">> ELSE <<>>)
        /\ CalcIn.marketing_type = Some("export")
             => CalcOut.recommended_plans = <<"overseas_market_plan">>

\* C22 witness: both directions were given, domestic first, with a grant_max
\* of zero.
C22_Witness ==
    /\ CalcAnswered
    /\ CalcIn.project_type = Some(PT_MARKETING)
    /\ CalcIn.marketing_type = Some("domestic, export")
    /\ CalcOut.grant_max = 0
    /\ CalcOut.recommended_plans = <<"overseas_market_plan", "domestic_promotion_plan">>

\* C23: a request with revenue 0 is answered with a calculation, whatever
\* its people, budget, bonus_count and project type, and the calculation has
\* upper_limit 0, grant_max 0 and grant_min 0.
C23_ZeroRevenueZeroGrant ==
    (/\ IsSet(calc_response)
     /\ CalcIn.revenue = Some(0)
     /\ \A f \in {"project_type", "budget", "people", "capital"} : IsSet(CalcIn[f]))
    => /\ CalcAnswered
       /\ CalcOut.breakdown.upper_limit = 0
       /\ CalcOut.grant_max = 0
       /\ CalcOut.grant_min = 0

\* C23 witness: revenue 0 with nobody insured and a positive sum of parts.
C23_Witness ==
    /\ CalcAnswered
    /\ CalcIn.revenue = Some(0)
    /\ CalcIn.people = Some(0)
    /\ CalcOut.breakdown.bonus_amount > 0
    /\ CalcOut.breakdown.grant_revenue_bonus > 0
    /\ CalcOut.grant_max = 0

\* C24: the employee grant is 150,000 per insured person below twenty
\* persons and 3,000,000 from twenty persons on.
C24_EmployeeGrant ==
    CalcAnswered =>
        LET people == Val(CalcIn.people)
        IN  CalcOut.breakdown.grant_employee =
                IF people < 20 THEN people * 150000 ELSE 3000000

\* C24 witness: a headcount above twenty.
C24_Witness ==
    /\ CalcAnswered
    /\ Val(CalcIn.people) > 20
    /\ CalcOut.breakdown.grant_employee = 3000000

\* the fields that count towards the progress of a record, the bonus items
\* aside
ProgressFields(cd) ==
    BaseFields \cup (IF cd.project_type = Some(PT_MARKETING) THEN MarketingFields ELSE {})

\* C25: the progress report has total_fields 8 for a MARKETING record and 6
\* otherwise, fields_completed lies between 0 and total_fields, every base
\* field (and marketing_type and growth_revenue for MARKETING) counts 1
\* exactly when set, and the bonus items together count 1 exactly when
\* bonus_count > 0, however many flags are true.
C25_ProgressAccounting ==
    LET cd == consultation_data
        progress == get_progress(cd)
    IN  /\ progress.total_fields =
              IF cd.project_type = Some(PT_MARKETING) THEN 8 ELSE 6
        /\ progress.fields_completed \in 0..progress.total_fields
        /\ progress.fields_completed =
              Cardinality({f \in ProgressFields(cd) : IsSet(cd[f])})
              + (IF Val(cd.bonus_count) > 0 THEN 1 ELSE 0)

\* C25 witness: a MARKETING record with every counted field set and two
\* bonus items reports 8 of 8.
C25_Witness ==
    /\ consultation_data.project_type = Some(PT_MARKETING)
    /\ Val(consultation_data.bonus_count) >= 2
    /\ get_progress(consultation_data).fields_completed = 8

\* C26: a request on one session, whatever the oracle returned for it (an
\* update, a confirmation, a calculation request, a failure), leaves the row
\* of every other session and the record of every other session as they
\* were: record fields, bonus_count, bonus_details, data_confirmed, grant
\* fields and status.
C26_OtherSessionsUntouched ==
    [][\A sid \in 1..Len(chat_sessions) :
          sid # last_request'.session_id =>
             /\ chat_sessions'[sid] = chat_sessions[sid]
             /\ \A i \in 1..Len(subsidy_consultations) :
                   subsidy_consultations[i].chat_session_id = sid =>
                      subsidy_consultations'[i] = subsidy_consultations[i]]_vars

\* C26 witness: the second session took an answer after the first one had
\* been calculated, and the two records differ in that answer.
C26_Witness ==
    /\ Len(chat_sessions) = 2
    /\ last_request.endpoint = "chat"
    /\ ~last_request.created
    /\ last_request.session_id = 2
    /\ subsidy_consultations[2].data.people = Some(0)
    /\ subsidy_consultations[1].data.people = Some(20)
    /\ IsSet(subsidy_consultations[1].data.grant_max)
    /\ chat_sessions[1].status = "COMPLETED"
    /\ chat_sessions[2].status = "ACTIVE"

\* the fields apply_update collects
CollectableFields == BaseFields \cup BoolFields \cup MarketingFields

GrantFields == {"grant_min", "grant_max", "recommended_plans"}

\* the positions of the records of a session
SessionRecords(sid) ==
    {i \in 1..Len(subsidy_consultations) :
        subsidy_consultations[i].chat_session_id = sid}

\* every session has one record, and every record is of an existing session
OneRecordPerSession ==
    /\ \A sid \in 1..Len(chat_sessions) : Cardinality(SessionRecords(sid)) = 1
    /\ \A i \in 1..Len(subsidy_consultations) :
          subsidy_consultations[i].chat_session_id \in 1..Len(chat_sessions)

\* the record of the session the last request created
CreatedRecord ==
    subsidy_consultations[CHOOSE i \in SessionRecords(last_request.session_id) : TRUE].data

ModifiedCompleteRecord ==
    /\ last_calls' = <<[name |-> "update_subsidy_data", confirmed |-> FALSE]>>
    /\ AllRequiredSet(consultation_data)
    /\ AllRequiredSet(consultation_data')
    /\ \E f \in CollectableFields : consultation_data'[f] # consultation_data[f]

SummaryEntries(cd) ==
    LET lines == get_current_data_summary(cd)
        rendered == {lines[i] : i \in 1..Len(lines)}
        listed == IF "bonus_details" \in rendered
                  THEN {Val(cd.bonus_details)[i] : i \in 1..Len(Val(cd.bonus_details))}
                  ELSE {}
    IN  rendered \cup listed

Grants(cd) == <<cd.grant_min, cd.grant_max, cd.recommended_plans>>

\* C32: grant_min, grant_max and recommended_plans change only in a turn in
\* which a calculation succeeded (an update, a confirm(false), a rejected
\* calculation request, a plain question and an oracle failure leave them
\* alone), and a turn that is one successful calculation leaves exactly the
\* result of calculate() on the record in them, whatever they held before.
C32_GrantsOnlyByCalculation ==
    [][/\ Grants(consultation_data') # Grants(consultation_data) => is_completed'
       /\ (is_completed' /\ last_calls' \in {<<ConfirmTrueHead>>, <<CalculateHead>>})
          => LET r == Recalculate(consultation_data)
             IN  Grants(consultation_data') =
                    <<Some(r.grant_min), Some(r.grant_max), Some(r.recommended_plans)>>]_vars

\* C32 witness: a calculation request on a record calculated in an earlier
\* turn and changed since: the third turn recalculates with revenue 0.
C32_Witness ==
    /\ turns = 3
    /\ is_completed
    /\ last_calls = <<CalculateHead>>
    /\ session.completed_at = Some(3)
    /\ consultation_data.revenue = Some(0)
    /\ consultation_data.grant_max = Some(0)
    /\ consultation_data.recommended_plans # Some(<<>>)

C34_CompletedIffCalculatedThisTurn ==
    /\ is_completed <=> (turns > 0 /\ session.completed_at = Some(turns))
    /\ IsSet(session.completed_at) => session.status = "COMPLETED"

\* C34 witness: a turn that stored an answer on a session completed in an
\* earlier turn reported false.
C34_Witness ==
    /\ session.status = "COMPLETED"
    /\ session.completed_at = Some(2)
    /\ turns = 3
    /\ ~is_completed
    /\ last_calls = <<[name |-> "update_subsidy_data", confirmed |-> FALSE]>>
    /\ response.kind = "ack_next"

\* the number of bonus flags answered yes, whichever they are
TrueFlagCount(cd) == Cardinality({f \in BoolFields : cd[f] = Some(TRUE)})

\* C35: the calculation of a session takes the five bonus flags only by
\* their number: the grants it stores and the result it returns (breakdown
\* included) are calculate() of the other fields and the number of flags
\* answered yes, so two records that differ only in which flags are true
\* get the same result.
C35_FlagsOnlyThroughTheirNumber ==
    CalculatedLast =>
        LET cd == consultation_data
            r == calculate_all(Val(cd.budget), Val(cd.people), Val(cd.revenue),
                               TrueFlagCount(cd), Val(cd.project_type),
                               IF IsSet(cd.marketing_type)
                               THEN SplitMarketing(Val(cd.marketing_type)) ELSE <<>>)
        IN  /\ Grants(cd) = <<Some(r.grant_min), Some(r.grant_max),
                              Some(r.recommended_plans)>>
            /\ response.kind = "result" => response.result = Some(r)

\* C35 witness: a calculation on a record whose only bonus item is the
\* government award, reported with the amount of one item.
C35_Witness ==
    /\ CalculatedLast
    /\ response.kind = "result"
    /\ consultation_data.has_gov_award = Some(TRUE)
    /\ TrueFlagCount(consultation_data) = 1
    /\ Val(response.result).breakdown.bonus_amount = 100000

\* C36: for a request with non-negative amounts and at most five bonus
\* items the answer has 0 <= grant_min <= grant_max <= 4,500,000, and the
\* breakdown reports the very values grant_max was derived from: grant_max is
\* the sum of the three reported parts where that is within the reported
\* upper limit and the reported upper limit otherwise.
C36_GrantRangeAndBreakdown ==
    (/\ CalcAnswered
     /\ \A f \in {"budget", "people", "capital", "revenue"} : Val(CalcIn[f]) >= 0
     /\ CalcIn.bonus_count = None \/ Val(CalcIn.bonus_count) \in 0..5)
    => LET b == CalcOut.breakdown
           parts == b.grant_employee + b.grant_revenue_bonus + b.bonus_amount
       IN  /\ 0 <= CalcOut.grant_min
           /\ CalcOut.grant_min <= CalcOut.grant_max
           /\ CalcOut.grant_max <= 4500000
           /\ b.grant_employee >= 0 /\ b.grant_revenue_bonus >= 0
           /\ b.bonus_amount >= 0 /\ b.upper_limit >= 0
           /\ CalcOut.grant_max = IF parts > b.upper_limit THEN b.upper_limit ELSE parts

\* C36 witness: the parts exceed the ceiling and the answer is the ceiling.
C36_Witness ==
    /\ CalcAnswered
    /\ Val(CalcIn.bonus_count) = 5
    /\ CalcOut.breakdown.grant_employee + CalcOut.breakdown.grant_revenue_bonus
         + CalcOut.breakdown.bonus_amount > 4500000
    /\ CalcOut.grant_max = 4500000
    /\ CalcOut.grant_min = 3375000

\* the turn applied an update and then a confirm(true), in this order
UpdateThenConfirm ==
    last_calls = <<[name |-> "update_subsidy_data", confirmed |-> FALSE], ConfirmTrueHead>>

\* C37: the function calls of a result are applied in list order: when an
\* update precedes a confirm(true) in the same result the calculation runs
\* on the updated values, so the grants stored at the end of the turn, and
\* the result returned, are calculate() of the record as the turn leaves it.
C37_UpdateBeforeConfirmIsCalculated ==
    (UpdateThenConfirm /\ GrantsSet(consultation_data))
    => LET r == Recalculate(consultation_data)
       IN  /\ is_completed
           /\ session.completed_at = Some(turns)
           /\ Grants(consultation_data) =
                  <<Some(r.grant_min), Some(r.grant_max), Some(r.recommended_plans)>>
           /\ response.kind = "result" => response.result = Some(r)

\* C37 witness: the result of the second turn set the revenue to 0 and then
\* confirmed; the grants are those of a revenue of 0.
C37_Witness ==
    /\ UpdateThenConfirm
    /\ turns = 2
    /\ is_completed
    /\ consultation_data.revenue = Some(0)
    /\ consultation_data.grant_max = Some(0)
    /\ consultation_data.grant_min = Some(0)

\* the updates with a value that cannot be converted to its field's type
IllTypedArgs == {d \in SingleArgs \cup BatchArgs : ~WellTyped(d)}

PersistedColumns ==
    {"project_type", "budget", "people", "capital", "revenue", "growth_revenue",
     "bonus_count", "bonus_details", "marketing_type",
     "grant_min", "grant_max", "recommended_plans"}

\* the record loaded by the handler constructed for a later turn: the
\* columns of the row; an attribute that is no column is absent from it
ReadBack(cd) == [f \in PersistedColumns |-> cd[f]]

\* C39: every value accepted by an update or a confirmation, each of the
\* five bonus flags and data_confirmed included, is part of the persisted
\* record and is read back unchanged by the handler of the next turn.
C39_AcceptedValuesAreReadBack ==
    /\ \A f \in CollectableFields :
          IsSet(consultation_data[f])
          => f \in DOMAIN ReadBack(consultation_data)
             /\ ReadBack(consultation_data)[f] = consultation_data[f]
    /\ consultation_data.data_confirmed
          => "data_confirmed" \in DOMAIN ReadBack(consultation_data)
             /\ ReadBack(consultation_data)["data_confirmed"]

====
